---- MODULE Spec2Model ----
(***************************************************************************)
(* Treeguessr: the round engine of the word-guessing game, as the React    *)
(* component App keeps it in its state hooks.                              *)
(*                                                                         *)
(* Two rulesets are in the source and both are modelled, selected by the   *)
(* variable `variant`:                                                     *)
(*   "B"  cost-per-guess        src/src/game.jsx, lines 1-344              *)
(*   "A"  reward/penalty        src/unnamed/part_000 (and its copy,        *)
(*                              src/src/game.jsx lines 345-662)            *)
(*                                                                         *)
(* A string is a sequence of one-character strings.  A handler's state     *)
(* updates are batched into one step; the effects of the render that       *)
(* follows are steps of their own, and React flushes them before it        *)
(* delivers the next user event, so user events wait for `effects = {}`.   *)
(***************************************************************************)
EXTENDS Integers, Sequences, FiniteSets, TLC

\* ------------------------------------------------------------ bounds

\* How many letters of LetterPool the player may press.
MaxKeys == 11

\* How finely the values of Math.random() are sampled.
RandomSteps == 4

\* ------------------------------------------------- characters, strings

Keys == <<"A","B","C","D","E","F","G","H","I","J","K","L","M",
          "N","O","P","Q","R","S","T","U","V","W","X","Y","Z">>

LowerKeys == <<"a","b","c","d","e","f","g","h","i","j","k","l","m",
               "n","o","p","q","r","s","t","u","v","w","x","y","z">>

\* The order in which the model admits keys: the vowels first, so that a
\* small MaxKeys already reaches the score boundary.
LetterPool == <<"A","E","I","O","U","B","C","D","F","G","H","J","K">>

Alphabet == {LetterPool[i] : i \in 1..MaxKeys}

Whitespace == {" ", "\n", "\r", "\t"}

Range(s) == {s[i] : i \in DOMAIN s}

\* String.prototype.toUpperCase, one character.
ToUpperChar(c) ==
    IF \E i \in DOMAIN LowerKeys : LowerKeys[i] = c
    THEN Keys[CHOOSE i \in DOMAIN LowerKeys : LowerKeys[i] = c]
    ELSE c

ToUpperCase(s) == [i \in DOMAIN s |-> ToUpperChar(s[i])]

\* String.prototype.trim.
RECURSIVE TrimLeft(_)
TrimLeft(s) ==
    IF s # <<>> /\ Head(s) \in Whitespace THEN TrimLeft(Tail(s)) ELSE s

RECURSIVE TrimRight(_)
TrimRight(s) ==
    IF s # <<>> /\ s[Len(s)] \in Whitespace
    THEN TrimRight(SubSeq(s, 1, Len(s) - 1))
    ELSE s

Trim(s) == TrimRight(TrimLeft(s))

\* text.split('\n')
RECURSIVE SplitLines(_)
SplitLines(text) ==
    IF \E i \in DOMAIN text : text[i] = "\n"
    THEN LET i == CHOOSE k \in DOMAIN text :
                      /\ text[k] = "\n"
                      /\ \A j \in 1..(k - 1) : text[j] # "\n"
         IN  <<SubSeq(text, 1, i - 1)>> \o SplitLines(SubSeq(text, i + 1, Len(text)))
    ELSE <<text>>

NonEmpty(s) == s # <<>>

\* word.replace(/ /g, '')
RemoveSpaces(word) == SelectSeq(word, LAMBDA c : c # " ")

\* word.replace(' ', ''): a string pattern replaces the first match only.
RemoveFirstSpace(word) ==
    IF \E i \in DOMAIN word : word[i] = " "
    THEN LET i == CHOOSE k \in DOMAIN word :
                      /\ word[k] = " "
                      /\ \A j \in 1..(k - 1) : word[j] # " "
         IN  SubSeq(word, 1, i - 1) \o SubSeq(word, i + 1, Len(word))
    ELSE word

\* --------------------------------------------------- program constants

VOWELS == {"A", "E", "I", "O", "U"}
COST_PER_VOWEL == 15
COST_PER_CONSONANT == 5
STARTING_SCORE == 100
STARTING_WORD_GUESSES == 3

POINTS_PER_CORRECT_LETTER == 10
POINTS_PER_WORD_GUESS == 100
PENALTY_PER_WRONG_LETTER == -5
PENALTY_PER_WRONG_WORD == -25
COMMON_LETTERS == {"E", "T", "A", "O", "I", "N", "S", "H", "R"}
MAX_WRONG_GUESSES == 6

LOADING == <<"L","O","A","D","I","N","G">>

\* ------------------------------------------------------------- inputs

FIG == <<"F","I","G">>
BIG_FIG == <<"B","I","G"," ","F","I","G">>
AEIOU_BCDFGH == <<"A","E","I","O","U"," ","B","C","D","F","G","H">>

\* The bodies wordlist.txt may have.
Texts ==
    { <<>>,
      FIG \o <<"\n">>,
      BIG_FIG \o <<" ", "\n", "\n">> \o AEIOU_BCDFGH \o <<"\n">> }

\* What the player may type into the word form.
RawGuesses ==
    { <<" ","f","i","g"," ">>,
      <<"A","e","i","o","u"," ","b","c","d","f","g","h">>,
      <<" "," ">> }

\* -------------------------------------------------------------- state

VARIABLES
    variant,            \* "A" | "B": which ruleset the build is
    loadState,          \* "pending" | "loaded" | "failed": the fetch
    wordList,
    currentWord,
    guessedLetters,
    score,
    wordGuessesLeft,    \* Variant B
    wrongWordGuesses,   \* Variant B
    wrongGuesses,       \* Variant A
    difficulty,         \* Variant A
    inputMode,
    gameState,
    message,
    effects,            \* effects the last render scheduled, not yet run
    lastCall            \* the last user intent delivered, and what it met

vars == <<variant, loadState, wordList, currentWord, guessedLetters, score,
          wordGuessesLeft, wrongWordGuesses, wrongGuesses, difficulty,
          inputMode, gameState, message, effects, lastCall>>

\* The round-scoped fields the engine owns.
round == <<currentWord, guessedLetters, score, wordGuessesLeft,
           wrongWordGuesses, wrongGuesses, difficulty, gameState, message>>

\* ----------------------------------------------------------- messages

NoMessage == [kind |-> "", word |-> <<>>, score |-> 0]
LoadErrorMessage == [kind |-> "Could not load tree list.", word |-> <<>>, score |-> 0]
WonMessage(word, finalScore) ==
    [kind |-> "You got it! It was", word |-> word, score |-> finalScore]
OutOfPointsMessage(word) ==
    [kind |-> "You ran out of points! The tree was:", word |-> word, score |-> 0]
OutOfGuessesMessage(word) ==
    [kind |-> "You're out of tree guesses! The tree was:", word |-> word, score |-> 0]
GameOverMessage(word) ==
    [kind |-> "Game over! The tree was:", word |-> word, score |-> 0]
NotItMessage(word) ==
    [kind |-> "Sorry, that's not it! The tree was:", word |-> word, score |-> 0]

\* ---------------------------------------------------- pure functions

\* Mutant: the spaces of the secret are not removed.
uniqueLettersInWord_KeepsSpaces == Range(currentWord)

\* useMemo(() => new Set(currentWord.replace(/ /g, '')))
uniqueLettersInWord == Range(RemoveSpaces(currentWord))

\* currentWord.includes(letter)
Includes(word, letter) == letter \in Range(word)

calculateWordDifficulty(word) ==
    LET uniqueLetters == Range(RemoveFirstSpace(word))
        uncommonLetters == Cardinality(uniqueLetters \ COMMON_LETTERS)
    IN  1 + (IF Len(word) > 10 THEN 1 ELSE 0)
          + (IF ~Includes(word, " ") THEN 1 ELSE 0)
          + (IF Cardinality(uniqueLetters) > 0
                /\ 2 * uncommonLetters > Cardinality(uniqueLetters)
             THEN 1 ELSE 0)

\* Effect 1's parse of the fetched text. Variant B trims each line.
ParseWordList(text) ==
    IF variant = "B"
    THEN SelectSeq([i \in DOMAIN SplitLines(text) |-> Trim(SplitLines(text)[i])], NonEmpty)
    ELSE SelectSeq(SplitLines(text), NonEmpty)

\* Math.floor(Math.random() * n) for a random number in [0, 1).
\* Math.random() returns a number in [0, 1): the fractions k / RandomSteps
\* below 1. The index is the floor of its product with the length.
Randoms == 0..(RandomSteps - 1)

RandomIndices(n) == {(k * n) \div RandomSteps : k \in Randoms}

\* Mutant: the fallback word whatever the list holds.
pickRandomWord_Fallback(words, r) == LOADING

pickRandomWord(words, r) ==
    IF Len(words) = 0 THEN LOADING ELSE words[r + 1]

\* The render's loading gate: no control of the game exists before a word is set.
GameScreenShown == currentWord # LOADING

\* ------------------------------------------------- what a call met

NoCall == [op |-> "none", was |-> "playing", known |-> FALSE]

\* op: the intent; was: gameState when it arrived; known: the letter had
\* been guessed before.
Call(op, known) == [op |-> op, was |-> gameState, known |-> known]

\* ---------------------------------------------------------- Variant B

\* Mutant: the new round keeps the input mode of the old one.
startNewGameB_KeepsMode(r) ==
    /\ currentWord' = pickRandomWord(wordList, r)
    /\ guessedLetters' = {}
    /\ score' = STARTING_SCORE
    /\ wordGuessesLeft' = STARTING_WORD_GUESSES
    /\ wrongWordGuesses' = <<>>
    /\ gameState' = "playing"
    /\ message' = NoMessage
    /\ UNCHANGED <<inputMode, wrongGuesses, difficulty>>

startNewGameB(r) ==
    /\ currentWord' = pickRandomWord(wordList, r)
    /\ guessedLetters' = {}
    /\ score' = STARTING_SCORE
    /\ wordGuessesLeft' = STARTING_WORD_GUESSES
    /\ wrongWordGuesses' = <<>>
    /\ gameState' = "playing"
    /\ message' = NoMessage
    /\ inputMode' = "letter"
    /\ UNCHANGED <<wrongGuesses, difficulty>>

\* Mutant: the handler forgets the already-guessed check.
LetterGuessRejected_StateOnly(letter) == gameState # "playing"

\* Line 200 (and line 240 of Variant A): the handler's early return.
LetterGuessRejected(letter) ==
    gameState # "playing" \/ letter \in guessedLetters

\* Mutant: the handler has no guard.
WordGuessRejected_Never == FALSE

\* Line 220 (and line 260 of Variant A).
WordGuessRejected == gameState # "playing"

\* Mutant: every letter costs the consonant rate.
Cost_FlatRate(letter) == COST_PER_CONSONANT

\* Mutant: consonants are free.
Cost_FreeConsonants(letter) ==
    IF letter \in VOWELS THEN COST_PER_VOWEL ELSE 0

Cost(letter) ==
    IF letter \in VOWELS THEN COST_PER_VOWEL ELSE COST_PER_CONSONANT

\* Mutant: the boundary itself does not lose.
OutOfPoints_Strict(newScore) == newScore < 0

OutOfPoints(newScore) == newScore <= 0

\* Mutant: a letter guess also spends one word-guess attempt.
handleGuessLetterB_SpendsAttempt(letter) ==
    IF LetterGuessRejected(letter)
    THEN UNCHANGED <<round, inputMode, effects>>
    ELSE /\ guessedLetters' = guessedLetters \cup {letter}
         /\ wordGuessesLeft' = wordGuessesLeft - 1
         /\ LET newScore == score - Cost(letter)
            IN  IF OutOfPoints(newScore)
                THEN /\ score' = 0
                     /\ gameState' = "lost"
                     /\ message' = OutOfPointsMessage(currentWord)
                ELSE /\ score' = newScore
                     /\ UNCHANGED <<gameState, message>>
         /\ effects' = {"win"}
         /\ UNCHANGED <<currentWord, wrongWordGuesses,
                        wrongGuesses, difficulty, inputMode>>

handleGuessLetterB(letter) ==
    IF LetterGuessRejected(letter)
    THEN UNCHANGED <<round, inputMode, effects>>
    ELSE /\ guessedLetters' = guessedLetters \cup {letter}
         /\ LET newScore == score - Cost(letter)
            IN  IF OutOfPoints(newScore)
                THEN /\ score' = 0
                     /\ gameState' = "lost"
                     /\ message' = OutOfPointsMessage(currentWord)
                ELSE /\ score' = newScore
                     /\ UNCHANGED <<gameState, message>>
         /\ effects' = {"win"}
         /\ UNCHANGED <<currentWord, wordGuessesLeft, wrongWordGuesses,
                        wrongGuesses, difficulty, inputMode>>

\* Mutant: off by one, the last attempt does not lose.
OutOfWordGuesses_Strict(newGuessesLeft) == newGuessesLeft < 0

OutOfWordGuesses(newGuessesLeft) == newGuessesLeft <= 0

\* Mutant: a wrong word guess also costs points, as it does in Variant A.
handleGuessWordB_ScorePenalty(wordGuess) ==
    IF WordGuessRejected
    THEN UNCHANGED <<round, inputMode, effects>>
    ELSE IF wordGuess = currentWord
    THEN /\ gameState' = "won"
         /\ message' = WonMessage(currentWord, score)
         /\ guessedLetters' = guessedLetters \cup uniqueLettersInWord
         /\ effects' = {"win"}
         /\ UNCHANGED <<currentWord, score, wordGuessesLeft, wrongWordGuesses,
                        wrongGuesses, difficulty, inputMode>>
    ELSE LET newGuessesLeft == wordGuessesLeft - 1
         IN  /\ wordGuessesLeft' = newGuessesLeft
             /\ wrongWordGuesses' = Append(wrongWordGuesses, wordGuess)
             /\ score' = score + PENALTY_PER_WRONG_WORD
             /\ IF OutOfWordGuesses(newGuessesLeft)
                THEN /\ gameState' = "lost"
                     /\ message' = OutOfGuessesMessage(currentWord)
                ELSE UNCHANGED <<gameState, message>>
             /\ effects' = {"win"}
             /\ UNCHANGED <<currentWord, guessedLetters,
                            wrongGuesses, difficulty, inputMode>>

\* Mutant: a wrong word already recorded is not charged again.
handleGuessWordB_Dedup(wordGuess) ==
    IF WordGuessRejected
    THEN UNCHANGED <<round, inputMode, effects>>
    ELSE IF wordGuess = currentWord
    THEN /\ gameState' = "won"
         /\ message' = WonMessage(currentWord, score)
         /\ guessedLetters' = guessedLetters \cup uniqueLettersInWord
         /\ effects' = {"win"}
         /\ UNCHANGED <<currentWord, score, wordGuessesLeft, wrongWordGuesses,
                        wrongGuesses, difficulty, inputMode>>
    ELSE IF wordGuess \in Range(wrongWordGuesses)
    THEN UNCHANGED <<round, inputMode, effects>>
    ELSE LET newGuessesLeft == wordGuessesLeft - 1
         IN  /\ wordGuessesLeft' = newGuessesLeft
             /\ wrongWordGuesses' = Append(wrongWordGuesses, wordGuess)
             /\ IF OutOfWordGuesses(newGuessesLeft)
                THEN /\ gameState' = "lost"
                     /\ message' = OutOfGuessesMessage(currentWord)
                     /\ effects' = {"win"}
                ELSE UNCHANGED <<gameState, message, effects>>
             /\ UNCHANGED <<currentWord, guessedLetters, score,
                            wrongGuesses, difficulty, inputMode>>

handleGuessWordB(wordGuess) ==
    IF WordGuessRejected
    THEN UNCHANGED <<round, inputMode, effects>>
    ELSE IF wordGuess = currentWord
    THEN /\ gameState' = "won"
         /\ message' = WonMessage(currentWord, score)
         /\ guessedLetters' = guessedLetters \cup uniqueLettersInWord
         /\ effects' = {"win"}
         /\ UNCHANGED <<currentWord, score, wordGuessesLeft, wrongWordGuesses,
                        wrongGuesses, difficulty, inputMode>>
    ELSE LET newGuessesLeft == wordGuessesLeft - 1
         IN  /\ wordGuessesLeft' = newGuessesLeft
             /\ wrongWordGuesses' = Append(wrongWordGuesses, wordGuess)
             /\ IF OutOfWordGuesses(newGuessesLeft)
                THEN /\ gameState' = "lost"
                     /\ message' = OutOfGuessesMessage(currentWord)
                     /\ effects' = {"win"}
                ELSE UNCHANGED <<gameState, message, effects>>
             /\ UNCHANGED <<currentWord, guessedLetters, score,
                            wrongGuesses, difficulty, inputMode>>

\* Mutant: the space between two words counts as a letter to guess.
AllLettersGuessed_CountsSpaces ==
    /\ Cardinality(uniqueLettersInWord) > 0
    /\ \A letter \in Range(currentWord) : letter \in guessedLetters

\* Every distinct non-space character of the secret is guessed.
AllLettersGuessed ==
    /\ Cardinality(uniqueLettersInWord) > 0
    /\ \A letter \in uniqueLettersInWord : letter \in guessedLetters

\* Mutant: the effect re-evaluates a round that is over.
\* Mutant: the effect is skipped in a lost round only.
WinCheckSkipped_OnlyWhenLost == gameState = "lost" \/ currentWord = LOADING

WinCheckSkipped_IgnoresState == currentWord = LOADING

\* The effect's early return.
WinCheckSkipped == gameState # "playing" \/ currentWord = LOADING

\* The win effect; it runs after a render in which one of its dependencies
\* [guessedLetters, gameState, currentWord, uniqueLettersInWord, score] changed,
\* and so once more after it set gameState itself.
winEffectB ==
    IF WinCheckSkipped
    THEN /\ effects' = effects \ {"win"}
         /\ UNCHANGED <<round, inputMode>>
    ELSE IF AllLettersGuessed
    THEN /\ gameState' = "won"
         /\ message' = WonMessage(currentWord, score)
         /\ effects' = {"win"}
         /\ UNCHANGED <<currentWord, guessedLetters, score, wordGuessesLeft,
                        wrongWordGuesses, wrongGuesses, difficulty, inputMode>>
    ELSE /\ effects' = effects \ {"win"}
         /\ UNCHANGED <<round, inputMode>>

\* The tabs are disabled once the round is over.
TabsEnabledB == gameState = "playing"

\* ---------------------------------------------------------- Variant A

\* Mutant: the new round keeps the message of the old one.
startNewGameA_KeepsMessage(r) ==
    LET newWord == pickRandomWord(wordList, r)
    IN  /\ currentWord' = newWord
        /\ difficulty' = calculateWordDifficulty(newWord)
        /\ guessedLetters' = {}
        /\ wrongGuesses' = 0
        /\ score' = 0
        /\ gameState' = "playing"
        /\ inputMode' = "letter"
        /\ UNCHANGED <<message, wordGuessesLeft, wrongWordGuesses>>

startNewGameA(r) ==
    LET newWord == pickRandomWord(wordList, r)
    IN  /\ currentWord' = newWord
        /\ difficulty' = calculateWordDifficulty(newWord)
        /\ guessedLetters' = {}
        /\ wrongGuesses' = 0
        /\ score' = 0
        /\ gameState' = "playing"
        /\ message' = NoMessage
        /\ inputMode' = "letter"
        /\ UNCHANGED <<wordGuessesLeft, wrongWordGuesses>>

\* Mutant: every correct letter earns the same points.
LetterPoints_NoDouble(letter) == POINTS_PER_CORRECT_LETTER

LetterPoints(letter) ==
    IF letter \in COMMON_LETTERS
    THEN POINTS_PER_CORRECT_LETTER
    ELSE POINTS_PER_CORRECT_LETTER * 2

\* Mutant: the guessed letter replaces the set instead of joining it.
handleGuessLetterA_Replaces(letter) ==
    IF LetterGuessRejected(letter)
    THEN UNCHANGED <<round, inputMode, effects>>
    ELSE /\ guessedLetters' = {letter}
         /\ IF Includes(currentWord, letter)
            THEN /\ score' = score + LetterPoints(letter)
                 /\ UNCHANGED wrongGuesses
            ELSE /\ wrongGuesses' = wrongGuesses + 1
                 /\ score' = score + PENALTY_PER_WRONG_LETTER
         /\ effects' = {"win"}
         /\ UNCHANGED <<currentWord, wordGuessesLeft, wrongWordGuesses,
                        difficulty, gameState, message, inputMode>>

\* Mutant: a letter that is not in the secret counts as two wrong guesses.
handleGuessLetterA_MissCountsTwice(letter) ==
    IF LetterGuessRejected(letter)
    THEN UNCHANGED <<round, inputMode, effects>>
    ELSE /\ guessedLetters' = guessedLetters \cup {letter}
         /\ IF Includes(currentWord, letter)
            THEN /\ score' = score + LetterPoints(letter)
                 /\ UNCHANGED wrongGuesses
            ELSE /\ wrongGuesses' = wrongGuesses + 2
                 /\ score' = score + PENALTY_PER_WRONG_LETTER
         /\ effects' = {"win"}
         /\ UNCHANGED <<currentWord, wordGuessesLeft, wrongWordGuesses,
                        difficulty, gameState, message, inputMode>>

handleGuessLetterA(letter) ==
    IF LetterGuessRejected(letter)
    THEN UNCHANGED <<round, inputMode, effects>>
    ELSE /\ guessedLetters' = guessedLetters \cup {letter}
         /\ IF Includes(currentWord, letter)
            THEN /\ score' = score + LetterPoints(letter)
                 /\ UNCHANGED wrongGuesses
            ELSE /\ wrongGuesses' = wrongGuesses + 1
                 /\ score' = score + PENALTY_PER_WRONG_LETTER
         /\ effects' = {"win"}
         /\ UNCHANGED <<currentWord, wordGuessesLeft, wrongWordGuesses,
                        difficulty, gameState, message, inputMode>>

\* Mutant: a wrong word guess counts as one more wrong letter and the round
\* goes on.
handleGuessWordA_CountsAsMiss(wordGuess) ==
    IF WordGuessRejected
    THEN UNCHANGED <<round, inputMode, effects>>
    ELSE IF wordGuess = currentWord
    THEN LET finalScore == score + (POINTS_PER_WORD_GUESS * difficulty)
                           + (POINTS_PER_CORRECT_LETTER * Cardinality(uniqueLettersInWord))
         IN  /\ score' = finalScore
             /\ gameState' = "won"
             /\ message' = WonMessage(currentWord, finalScore)
             /\ guessedLetters' = guessedLetters \cup uniqueLettersInWord
             /\ effects' = {"win"}
             /\ UNCHANGED <<currentWord, wordGuessesLeft, wrongWordGuesses,
                            wrongGuesses, difficulty, inputMode>>
    ELSE /\ score' = score + PENALTY_PER_WRONG_WORD
         /\ wrongGuesses' = wrongGuesses + 1
         /\ effects' = {"win"}
         /\ UNCHANGED <<currentWord, guessedLetters, wordGuessesLeft,
                        wrongWordGuesses, difficulty, gameState, message, inputMode>>

handleGuessWordA(wordGuess) ==
    IF WordGuessRejected
    THEN UNCHANGED <<round, inputMode, effects>>
    ELSE IF wordGuess = currentWord
    THEN LET finalScore == score + (POINTS_PER_WORD_GUESS * difficulty)
                           + (POINTS_PER_CORRECT_LETTER * Cardinality(uniqueLettersInWord))
         IN  /\ score' = finalScore
             /\ gameState' = "won"
             /\ message' = WonMessage(currentWord, finalScore)
             /\ guessedLetters' = guessedLetters \cup uniqueLettersInWord
             /\ effects' = {"win"}
             /\ UNCHANGED <<currentWord, wordGuessesLeft, wrongWordGuesses,
                            wrongGuesses, difficulty, inputMode>>
    ELSE /\ score' = score + PENALTY_PER_WRONG_WORD
         /\ gameState' = "lost"
         /\ message' = NotItMessage(currentWord)
         /\ effects' = {"win"}
         /\ UNCHANGED <<currentWord, guessedLetters, wordGuessesLeft,
                        wrongWordGuesses, wrongGuesses, difficulty, inputMode>>

\* Mutant: the win message embeds the score before the bonus.
winEffectA_StaleScore ==
    IF WinCheckSkipped
    THEN /\ effects' = effects \ {"win"}
         /\ UNCHANGED <<round, inputMode>>
    ELSE IF AllLettersGuessed
    THEN LET finalScore == score + (POINTS_PER_WORD_GUESS * difficulty)
         IN  /\ gameState' = "won"
             /\ score' = finalScore
             /\ message' = WonMessage(currentWord, score)
             /\ effects' = {"win"}
             /\ UNCHANGED <<currentWord, guessedLetters, wordGuessesLeft,
                            wrongWordGuesses, wrongGuesses, difficulty, inputMode>>
    ELSE IF wrongGuesses >= MAX_WRONG_GUESSES
    THEN /\ gameState' = "lost"
         /\ message' = GameOverMessage(currentWord)
         /\ effects' = {"win"}
         /\ UNCHANGED <<currentWord, guessedLetters, score, wordGuessesLeft,
                        wrongWordGuesses, wrongGuesses, difficulty, inputMode>>
    ELSE /\ effects' = effects \ {"win"}
         /\ UNCHANGED <<round, inputMode>>

\* The win/loss effect, dependencies [guessedLetters, wrongGuesses, gameState,
\* currentWord]; score and difficulty are those of the render it runs after.
winEffectA ==
    IF WinCheckSkipped
    THEN /\ effects' = effects \ {"win"}
         /\ UNCHANGED <<round, inputMode>>
    ELSE IF AllLettersGuessed
    THEN LET finalScore == score + (POINTS_PER_WORD_GUESS * difficulty)
         IN  /\ gameState' = "won"
             /\ score' = finalScore
             /\ message' = WonMessage(currentWord, finalScore)
             /\ effects' = {"win"}
             /\ UNCHANGED <<currentWord, guessedLetters, wordGuessesLeft,
                            wrongWordGuesses, wrongGuesses, difficulty, inputMode>>
    ELSE IF wrongGuesses >= MAX_WRONG_GUESSES
    THEN /\ gameState' = "lost"
         /\ message' = GameOverMessage(currentWord)
         /\ effects' = {"win"}
         /\ UNCHANGED <<currentWord, guessedLetters, score, wordGuessesLeft,
                        wrongWordGuesses, wrongGuesses, difficulty, inputMode>>
    ELSE /\ effects' = effects \ {"win"}
         /\ UNCHANGED <<round, inputMode>>

\* The tabs carry no disabled attribute.
TabsEnabledA == TRUE

\* ------------------------------------------------------- the component

startNewGame(r) ==
    IF variant = "B" THEN startNewGameB(r) ELSE startNewGameA(r)

handleGuessLetter(letter) ==
    IF variant = "B" THEN handleGuessLetterB(letter) ELSE handleGuessLetterA(letter)

handleGuessWord(wordGuess) ==
    IF variant = "B" THEN handleGuessWordB(wordGuess) ELSE handleGuessWordA(wordGuess)

TabsEnabled == IF variant = "B" THEN TabsEnabledB ELSE TabsEnabledA

\* The message is rendered in the message box of the game screen only: the
\* loading screen shows its own title and nothing else.
MessageRendered == GameScreenShown /\ gameState # "playing"

\* The Play Again button is part of the message box.
PlayAgainShown == GameScreenShown /\ gameState # "playing"

Init ==
    /\ variant \in {"A", "B"}
    /\ loadState = "pending"
    /\ wordList = <<>>
    /\ currentWord = LOADING
    /\ guessedLetters = {}
    /\ score = IF variant = "B" THEN STARTING_SCORE ELSE 0
    /\ wordGuessesLeft = IF variant = "B" THEN STARTING_WORD_GUESSES ELSE 0
    /\ wrongWordGuesses = <<>>
    /\ wrongGuesses = 0
    /\ difficulty = 1
    /\ inputMode = "letter"
    /\ gameState = "playing"
    /\ message = NoMessage
    /\ effects = {}
    /\ lastCall = NoCall

\* Effect 1, the fetch resolves: the text is parsed into the word list.
FetchResolves ==
    /\ loadState = "pending"
    /\ \E text \in Texts : wordList' = ParseWordList(text)
    /\ loadState' = "loaded"
    /\ effects' = {"start"}
    /\ UNCHANGED <<variant, round, inputMode, lastCall>>

\* Effect 1, the fetch fails.
FetchFails ==
    /\ loadState = "pending"
    /\ loadState' = "failed"
    /\ message' = LoadErrorMessage
    /\ UNCHANGED <<variant, wordList, currentWord, guessedLetters, score,
                   wordGuessesLeft, wrongWordGuesses, wrongGuesses, difficulty,
                   inputMode, gameState, effects, lastCall>>

\* Mutant: Effect 2 starts a round whatever the word list holds.
StartEffect_Unguarded ==
    /\ "start" \in effects
    /\ \E r \in (IF Len(wordList) = 0 THEN {0} ELSE RandomIndices(Len(wordList))) :
          startNewGame(r)
    /\ effects' = {"win"}
    /\ lastCall' = Call("start", FALSE)
    /\ UNCHANGED <<variant, loadState, wordList>>

\* Effect 2: a round starts once the word list has words.
StartEffect ==
    /\ "start" \in effects
    /\ IF Len(wordList) > 0
       THEN /\ \E r \in RandomIndices(Len(wordList)) : startNewGame(r)
            /\ effects' = {"win"}
            /\ lastCall' = Call("start", FALSE)
       ELSE /\ effects' = effects \ {"start"}
            /\ UNCHANGED <<round, inputMode, lastCall>>
    /\ UNCHANGED <<variant, loadState, wordList>>

PlayAgain ==
    /\ effects = {}
    /\ PlayAgainShown
    /\ \E r \in RandomIndices(Len(wordList)) : startNewGame(r)
    /\ effects' = {"win"}
    /\ lastCall' = Call("start", FALSE)
    /\ UNCHANGED <<variant, loadState, wordList>>

WinEffect ==
    /\ "win" \in effects
    /\ IF variant = "B" THEN winEffectB ELSE winEffectA
    /\ UNCHANGED <<variant, loadState, wordList, lastCall>>

\* A key of the keyboard is pressed. The call is delivered whether or not the
\* view has the key disabled: the handler has its own guard.
GuessLetter ==
    /\ effects = {}
    /\ GameScreenShown
    /\ inputMode = "letter"
    /\ \E letter \in Alphabet :
          /\ handleGuessLetter(letter)
          /\ lastCall' = Call("letter", letter \in guessedLetters)
    /\ UNCHANGED <<variant, loadState, wordList>>

\* GuessWordInput.handleSubmit: a blank entry is dropped, anything else is
\* trimmed, upper-cased and handed to handleGuessWord.
SubmitWord ==
    /\ effects = {}
    /\ GameScreenShown
    /\ inputMode = "word"
    /\ \E guess \in RawGuesses :
          IF Trim(guess) # <<>>
          THEN /\ handleGuessWord(ToUpperCase(Trim(guess)))
               /\ lastCall' = Call("word", FALSE)
          ELSE /\ lastCall' = Call("blank", FALSE)
               /\ UNCHANGED <<round, inputMode, effects>>
    /\ UNCHANGED <<variant, loadState, wordList>>

\* One of the two input-mode tabs is clicked.
SetInputMode ==
    /\ effects = {}
    /\ GameScreenShown
    /\ TabsEnabled
    /\ \E mode \in {"letter", "word"} : inputMode' = mode
    /\ lastCall' = Call("mode", FALSE)
    /\ UNCHANGED <<variant, loadState, wordList, round, effects>>

Next ==
    \/ FetchResolves
    \/ FetchFails
    \/ StartEffect
    \/ PlayAgain
    \/ WinEffect
    \/ GuessLetter
    \/ SubmitWord
    \/ SetInputMode

Spec == Init /\ [][Next]_vars

\* handleGuessLetter takes any string: nothing in it looks at what the letter
\* is. These are arguments the Keyboard never sends: a digit, a lower-case
\* letter, a space.
InvalidLetters == {"1", "a", " "}

\* handleGuessLetter is called with an argument that is not a key of the
\* Keyboard.
GuessLetterDirect ==
    /\ effects = {}
    /\ GameScreenShown
    /\ inputMode = "letter"
    /\ \E letter \in InvalidLetters :
          /\ handleGuessLetter(letter)
          /\ lastCall' = Call("invalid", letter \in guessedLetters)
    /\ UNCHANGED <<variant, loadState, wordList>>

\* The component with its letter handler also driven directly.
NextDirect ==
    \/ Next
    \/ GuessLetterDirect

SpecDirect == Init /\ [][NextDirect]_vars

\* ------------------------------------------------------------ claims

\* A step that starts a round (Effect 2 or Play Again).
StartStep == lastCall'.op = "start" /\ lastCall.op # "start"

\* A step that delivers a letter or a word guess to its handler.
GuessStep == effects = {} /\ lastCall'.op \in {"letter", "word"}

\* What a set of letters costs in the cost-per-guess ruleset.
CostOfLetters(S) ==
    15 * Cardinality(S \cap {"A","E","I","O","U"})
    + 5 * Cardinality(S \ {"A","E","I","O","U"})

\* C1: within a round gameState goes playing->won, playing->lost or stays;
\* never won->lost, lost->won, or from won/lost back to playing.
C1_StateTransitions ==
    [][ \/ StartStep
        \/ gameState' = gameState
        \/ (gameState = "playing" /\ gameState' \in {"won", "lost"}) ]_vars

\* C1 witness: a guess was delivered to a round already won, and it is still won.
C1_Witness ==
    /\ gameState = "won"
    /\ lastCall.op \in {"letter", "word"}
    /\ lastCall.was = "won"

\* C2 as claimed: in the cost-per-guess ruleset, a round in which only
\* letters of the secret were guessed is never lost, and is won once all of
\* them are guessed.
C2_Original ==
    (/\ variant = "B"
     /\ GameScreenShown
     /\ effects = {}
     /\ wrongWordGuesses = <<>>
     /\ guessedLetters \subseteq uniqueLettersInWord)
    => /\ gameState # "lost"
       /\ (guessedLetters = uniqueLettersInWord => gameState = "won")

\* C2 amended: for a secret whose distinct letters cost less than the
\* starting 100 points, guessing exactly those letters, and nothing else,
\* leaves the round won.
C2_AllLettersWin ==
    (/\ variant = "B"
     /\ GameScreenShown
     /\ effects = {}
     /\ wrongWordGuesses = <<>>
     /\ guessedLetters = uniqueLettersInWord
     /\ CostOfLetters(uniqueLettersInWord) < 100)
    => gameState = "won"

\* C2 witness: a two-word secret completed by its last letter.
C2_Witness ==
    /\ variant = "B"
    /\ currentWord = BIG_FIG
    /\ effects = {}
    /\ lastCall.op = "letter"
    /\ ~lastCall.known
    /\ guessedLetters = {"B", "I", "G", "F"}
    /\ gameState = "won"

\* C3 as claimed: the win condition is evaluated first, so a round lost by
\* score never has every letter of the secret guessed.
C3_WinBeforeLoss ==
    (/\ variant = "B"
     /\ effects = {}
     /\ gameState = "lost"
     /\ message = OutOfPointsMessage(currentWord))
    => ~AllLettersGuessed

\* C4 as claimed: once the evaluation has run, a started round is won
\* exactly when every distinct non-space character of the secret is guessed.
C4_WonIffAllGuessed ==
    (GameScreenShown /\ effects = {})
    => (gameState = "won" <=> AllLettersGuessed)

\* C5: a guess delivered to a round that is won or lost changes nothing.
C5_TerminalGuessIgnored ==
    [][ (GuessStep /\ gameState \in {"won", "lost"})
        => UNCHANGED <<round, inputMode, effects>> ]_vars

\* C5 witness: a word guess was delivered to a lost round of Variant B.
C5_Witness ==
    /\ variant = "B"
    /\ lastCall.op = "word"
    /\ lastCall.was = "lost"
    /\ gameState = "lost"

\* C6: guessing a letter that is already guessed changes nothing.
C6_RepeatedLetterNoOp ==
    [][ (GuessStep /\ lastCall'.op = "letter" /\ lastCall'.known)
        => UNCHANGED <<round, inputMode, effects>> ]_vars

\* C6 witness: a guessed letter was guessed again while the round was playing.
C6_Witness ==
    /\ lastCall.op = "letter"
    /\ lastCall.known
    /\ lastCall.was = "playing"
    /\ gameState = "playing"
    /\ guessedLetters # {}

\* C7 as claimed: once a round is won or lost, no round-scoped field, the
\* input mode included, changes until a new round is started.
C7_TerminalFrozen ==
    [][ (gameState \in {"won", "lost"} /\ ~StartStep)
        => UNCHANGED <<round, inputMode>> ]_vars

\* C8 as claimed: a round starts with 5 word-guess attempts and it is the
\* 5th wrong word guess that loses it.
C8_Original ==
    (variant = "B" /\ GameScreenShown)
    => /\ (lastCall.op = "start" => wordGuessesLeft = 5)
       /\ (message = OutOfGuessesMessage(currentWord) <=> Len(wrongWordGuesses) = 5)

\* C8 amended: a round starts with 3 word-guess attempts; it is still
\* playing after the first and the second wrong word guess, and the 3rd
\* wrong word guess loses it.
C8_ThirdWrongGuessLoses ==
    (variant = "B" /\ GameScreenShown)
    => /\ (lastCall.op = "start" => wordGuessesLeft = 3)
       /\ Len(wrongWordGuesses) <= 3
       /\ (Len(wrongWordGuesses) < 3 => message # OutOfGuessesMessage(currentWord))
       /\ (Len(wrongWordGuesses) = 3
             => gameState = "lost" /\ message = OutOfGuessesMessage(currentWord))
       /\ (guessedLetters = {} /\ Len(wrongWordGuesses) \in {1, 2}
             => gameState = "playing")

\* C8 witness: three wrong word guesses in a row lost the round.
C8_Witness ==
    /\ variant = "B"
    /\ guessedLetters = {}
    /\ Len(wrongWordGuesses) = 3
    /\ wordGuessesLeft = 0
    /\ gameState = "lost"

\* C9: while the round is playing, every guessed letter has cost exactly 15
\* (a vowel) or 5 (a consonant), in the secret or not.
C9_CostPerGuess ==
    (variant = "B" /\ gameState = "playing")
    => score = 100 - CostOfLetters(guessedLetters)

\* C9 witness: B, C, D, F, G guessed from 100 leave 75.
C9_Witness ==
    /\ variant = "B"
    /\ gameState = "playing"
    /\ guessedLetters = {"B", "C", "D", "F", "G"}
    /\ score = 75

\* C10: the score stays within 0..100, is above 0 while playing, and is
\* exactly 0 in a round lost by score.
C10_ScoreRange ==
    variant = "B"
    => /\ 0 <= score /\ score <= 100
       /\ (gameState = "playing" => score > 0)
       /\ (message = OutOfPointsMessage(currentWord)
             => score = 0 /\ gameState = "lost")

\* C10 witness: a letter guess that would have left -5 points lost the round at 0.
C10_Witness ==
    /\ variant = "B"
    /\ gameState = "lost"
    /\ score = 0
    /\ message = OutOfPointsMessage(currentWord)
    /\ CostOfLetters(guessedLetters) = 105

\* What GuessWordInput hands to handleGuessWord for a typed text.
Typed(guess) == ToUpperCase(Trim(guess))

\* A step that delivers the typed text `guess` to handleGuessWord while the
\* round is playing.
WordGuessStep(guess) ==
    /\ GuessStep
    /\ lastCall'.op = "word"
    /\ gameState = "playing"
    /\ Trim(guess) # <<>>
    /\ handleGuessWord(Typed(guess))

\* C11: in the cost-per-guess ruleset a wrong word guess made while playing
\* takes one attempt, is appended to the history, leaves score and
\* guessedLetters alone, and loses the round exactly when no attempt is left.
C11_WrongWordGuess ==
    [][ \A guess \in RawGuesses :
          (variant = "B" /\ WordGuessStep(guess) /\ Typed(guess) # currentWord)
          => /\ wordGuessesLeft' = wordGuessesLeft - 1
             /\ wrongWordGuesses' = wrongWordGuesses \o <<Typed(guess)>>
             /\ score' = score
             /\ guessedLetters' = guessedLetters
             /\ IF wordGuessesLeft - 1 <= 0
                THEN /\ gameState' = "lost"
                     /\ message'.kind # ""
                     /\ message'.word = currentWord
                ELSE /\ gameState' = "playing"
                     /\ message' = NoMessage ]_vars

\* C11 witness: two different wrong word guesses are on record, one attempt
\* is left and the round is still playing.
C11_Witness ==
    /\ variant = "B"
    /\ lastCall.op = "word"
    /\ lastCall.was = "playing"
    /\ Len(wrongWordGuesses) = 2
    /\ wrongWordGuesses[1] # wrongWordGuesses[2]
    /\ wordGuessesLeft = 1
    /\ gameState = "playing"
    /\ message = NoMessage

\* C12: a word guess equal to the secret, made while playing, wins at once
\* and adds the secret's distinct non-space characters to guessedLetters;
\* the space is never a member; in the cost-per-guess ruleset score and
\* wordGuessesLeft stay as they were.
C12_CorrectWordGuess ==
    [][ \A guess \in RawGuesses :
          (WordGuessStep(guess) /\ Typed(guess) = currentWord)
          => /\ gameState' = "won"
             /\ guessedLetters' = guessedLetters \cup (Range(currentWord) \ {" "})
             /\ " " \notin guessedLetters'
             /\ (variant = "B"
                   => score' = score /\ wordGuessesLeft' = wordGuessesLeft) ]_vars

\* C12 witness: the two-word secret was guessed as a word after one wrong
\* word guess and one letter guess.
C12_Witness ==
    /\ variant = "B"
    /\ currentWord = AEIOU_BCDFGH
    /\ lastCall.op = "word"
    /\ lastCall.was = "playing"
    /\ gameState = "won"
    /\ guessedLetters = Range(AEIOU_BCDFGH) \ {" "}
    /\ score = 95
    /\ wordGuessesLeft = 2

\* C13: startNewGame replaces the round wholesale, whatever state the
\* previous one was in: no guessed letter, playing, no message, letter mode,
\* no wrong word guess, and the counters at their starting values.
C13_StartResetsRound ==
    [][ StartStep
        => /\ guessedLetters' = {}
           /\ gameState' = "playing"
           /\ message' = NoMessage
           /\ inputMode' = "letter"
           /\ wrongWordGuesses' = <<>>
           /\ currentWord' \in Range(wordList)
           /\ (variant = "B" => score' = 100 /\ wordGuessesLeft' = 3)
           /\ (variant = "A" => score' = 0 /\ wrongGuesses' = 0) ]_vars

\* C13 witness: Play Again in a lost round, just pressed; the round is fresh.
C13_Witness ==
    /\ variant = "B"
    /\ lastCall.op = "start"
    /\ lastCall.was = "lost"
    /\ guessedLetters = {}
    /\ wrongWordGuesses = <<>>
    /\ score = 100
    /\ wordGuessesLeft = 3
    /\ inputMode = "letter"
    /\ gameState = "playing"

\* C14 as claimed: when the word list cannot be loaded, the text "Could not
\* load tree list." is rendered to the player and no round is started.
C14_LoadFailureShown ==
    loadState = "failed"
    => /\ message = LoadErrorMessage
       /\ MessageRendered
       /\ currentWord = LOADING

\* C15: a round is started only from a word list that has words, and the
\* word it starts with is one of them, never the "LOADING" fallback.
C15_NoStartFromEmptyList ==
    [][ StartStep
        => /\ Len(wordList) > 0
           /\ currentWord' \in Range(wordList)
           /\ currentWord' # LOADING ]_vars

\* C15 witness: an empty word list was loaded, Effect 2 has run, and no
\* round was started.
C15_Witness ==
    /\ loadState = "loaded"
    /\ wordList = <<>>
    /\ effects = {}
    /\ currentWord = LOADING
    /\ lastCall = NoCall

\* C16 as claimed: while gameState is "playing" the message is empty.
C16_Original == gameState = "playing" => message = NoMessage

\* C16 amended: a message is set only in a round that is won or lost, or,
\* before any round, by a failed load of the word list (gameState is then
\* still "playing" and the message is "Could not load tree list.").
C16_MessageOnlyWhenOver ==
    message # NoMessage
    => \/ gameState \in {"won", "lost"}
       \/ (loadState = "failed" /\ message = LoadErrorMessage /\ currentWord = LOADING)

\* C16 witness: Play Again in a won round has cleared the win message.
C16_Witness ==
    /\ lastCall.op = "start"
    /\ lastCall.was = "won"
    /\ gameState = "playing"
    /\ message = NoMessage

\* A step that delivers a letter not guessed before to handleGuessLetter
\* while the round is playing.
LetterGuessStep ==
    /\ GuessStep
    /\ lastCall'.op = "letter"
    /\ ~lastCall'.known
    /\ gameState = "playing"

\* The reward/penalty ruleset's scoring of one accepted letter.
C17_LetterScoring ==
    \A letter \in Alphabet \ guessedLetters :
       (variant = "A" /\ LetterGuessStep /\ letter \in guessedLetters')
       => /\ guessedLetters' = guessedLetters \cup {letter}
          /\ IF letter \in Range(currentWord)
             THEN /\ score' = score + (IF letter \in {"E","T","A","O","I","N","S","H","R"}
                                       THEN 10 ELSE 20)
                  /\ wrongGuesses' = wrongGuesses
             ELSE /\ score' = score - 5
                  /\ wrongGuesses' = wrongGuesses + 1

\* The win/loss effect of the reward/penalty ruleset ends the round as Lost
\* exactly at six wrong letters with a letter of the secret still hidden.
C17_LossAtSixWrong ==
    (variant = "A" /\ "win" \in effects /\ gameState = "playing")
    => /\ (wrongGuesses >= 6 /\ ~AllLettersGuessed) => gameState' = "lost"
       /\ gameState' = "lost" => (wrongGuesses = 6 /\ ~AllLettersGuessed)

\* C17: Variant A: an accepted letter of the secret earns 10 points if it is
\* one of E,T,A,O,I,N,S,H,R and 20 otherwise and leaves wrongGuesses alone;
\* an accepted letter not in the secret costs 5 points and adds 1 to
\* wrongGuesses; the round is Lost when wrongGuesses reaches 6 without a win,
\* so that no playing round waits for input with 6 wrong letters.
C17_RewardPenaltyLetters ==
    /\ [](( variant = "A" /\ effects = {} /\ gameState = "playing") => wrongGuesses < 6)
    /\ [][ /\ LetterGuessStep => (variant = "A" => guessedLetters' # guessedLetters)
           /\ C17_LetterScoring
           /\ C17_LossAtSixWrong ]_vars

\* C17 witness: 'FIG' lost at the sixth wrong letter, after F (uncommon, 20)
\* and I (common, 10): 30 - 6 * 5 = 0.
C17_Witness ==
    /\ variant = "A"
    /\ currentWord = FIG
    /\ gameState = "lost"
    /\ wrongGuesses = 6
    /\ message = GameOverMessage(FIG)
    /\ guessedLetters \cap {"F", "I", "G"} = {"F", "I"}
    /\ score = 0

\* C18: Variant A: a wrong word guess made while playing subtracts exactly 25
\* from score and ends the round at once as Lost; guessedLetters and
\* wrongGuesses are unchanged and no attempt counter is kept.
C18_WrongWordGuessLoses ==
    [][ \A guess \in RawGuesses :
          (variant = "A" /\ WordGuessStep(guess) /\ Typed(guess) # currentWord)
          => /\ score' = score - 25
             /\ gameState' = "lost"
             /\ message' # NoMessage
             /\ guessedLetters' = guessedLetters
             /\ wrongGuesses' = wrongGuesses
             /\ wordGuessesLeft' = wordGuessesLeft
             /\ wrongWordGuesses' = wrongWordGuesses ]_vars

\* C18 witness: the first action of the round is a wrong word guess.
C18_Witness ==
    /\ variant = "A"
    /\ lastCall.op = "word"
    /\ lastCall.was = "playing"
    /\ gameState = "lost"
    /\ message = NotItMessage(currentWord)
    /\ guessedLetters = {}
    /\ wrongGuesses = 0
    /\ score = -25

\* A step that delivers a wrong word guess to handleGuessWord while playing.
WrongWordGuessStep ==
    \E guess \in RawGuesses : WordGuessStep(guess) /\ Typed(guess) # currentWord

\* C20: a letter guess never changes currentWord, wordGuessesLeft or
\* wrongWordGuesses; a word guess never changes currentWord; currentWord
\* changes only in startNewGame, and wordGuessesLeft only by a wrong word
\* guess or by startNewGame.
C20_GuessFrame ==
    [][ /\ (GuessStep /\ lastCall'.op = "letter")
           => UNCHANGED <<currentWord, wordGuessesLeft, wrongWordGuesses>>
        /\ (GuessStep /\ lastCall'.op = "word") => currentWord' = currentWord
        /\ currentWord' # currentWord => StartStep
        /\ wordGuessesLeft' # wordGuessesLeft => (StartStep \/ WrongWordGuessStep) ]_vars

\* C20 witness: a letter was accepted after one wrong word guess, and the
\* attempts left are still 2.
C20_Witness ==
    /\ variant = "B"
    /\ lastCall.op = "letter"
    /\ lastCall.was = "playing"
    /\ ~lastCall.known
    /\ guessedLetters # {}
    /\ Len(wrongWordGuesses) = 1
    /\ wordGuessesLeft = 2

\* C19 as claimed: a letter guess whose input is not one of A-Z (a digit, a
\* space, a lower-case letter) is ignored: guessedLetters, score, the
\* counters and gameState are unchanged.
C19_InvalidLetterIgnored ==
    [][ (effects = {} /\ lastCall'.op = "invalid")
        => UNCHANGED <<guessedLetters, score, wordGuessesLeft, wrongGuesses,
                       gameState, message>> ]_vars

\* C21: within a round guessedLetters only grows: every step that is not a
\* start of a round leaves a superset; an accepted letter guess adds exactly
\* one letter, a key of the keyboard not guessed before; the set is emptied
\* only by startNewGame.
C21_GuessedLettersGrow ==
    [][ /\ ~StartStep => guessedLetters \subseteq guessedLetters'
        /\ LetterGuessStep
           => /\ guessedLetters \subseteq guessedLetters'
              /\ Cardinality(guessedLetters') = Cardinality(guessedLetters) + 1
              /\ (guessedLetters' \ guessedLetters) \subseteq Alphabet
        /\ (guessedLetters # {} /\ guessedLetters' = {}) => StartStep ]_vars

\* C21 witness: a third letter was accepted in a round of Variant A.
C21_Witness ==
    /\ variant = "A"
    /\ lastCall.op = "letter"
    /\ lastCall.was = "playing"
    /\ ~lastCall.known
    /\ effects = {}
    /\ Cardinality(guessedLetters) = 3
    /\ gameState = "playing"

\* C22: the win/loss evaluation changes nothing in a round that is already
\* Won or Lost. In Variant A the score changes only while the round is
\* playing (or at a start): the step that wins the round adds the bonus
\* 100 * difficulty once (with 10 per distinct letter on a word guess), and
\* the effect that re-runs after a win by word guess adds nothing.
C22_EvaluationIdempotent ==
    [][ /\ ("win" \in effects /\ gameState \in {"won", "lost"})
           => UNCHANGED <<round, inputMode>>
        /\ (score' # score /\ gameState # "playing") => StartStep
        /\ (variant = "A" /\ gameState = "playing" /\ gameState' = "won")
           => \/ /\ "win" \in effects
                 /\ score' = score + 100 * difficulty
              \/ /\ lastCall'.op = "word"
                 /\ score' = score + 100 * difficulty
                             + 10 * Cardinality(Range(currentWord) \ {" "}) ]_vars

\* C22 witness: 'FIG' (difficulty 3) won by word guess at score 0 in Variant
\* A; the effect has re-run and the score is still 300 + 30.
C22_Witness ==
    /\ variant = "A"
    /\ currentWord = FIG
    /\ lastCall.op = "word"
    /\ gameState = "won"
    /\ effects = {}
    /\ score = 330

\* C23: on a non-empty list every index floor(random * length) is within
\* 0..length-1 and pickRandomWord returns an element of the list, the only
\* element of a single-element list; after every startNewGame currentWord
\* is a member of wordList.
C23_PickIsMember ==
    /\ [](\A text \in Texts :
            LET words == ParseWordList(text)
            IN  Len(words) > 0
                => \A r \in RandomIndices(Len(words)) :
                      /\ r \in 0..(Len(words) - 1)
                      /\ pickRandomWord(words, r) \in Range(words)
                      /\ Len(words) = 1 => pickRandomWord(words, r) = words[1])
    /\ [][ StartStep
           => /\ \E i \in 1..Len(wordList) : currentWord' = wordList[i]
              /\ Len(wordList) = 1 => currentWord' = wordList[1] ]_vars

\* C23 witness: Play Again picked the last of two words.
C23_Witness ==
    /\ lastCall.op = "start"
    /\ lastCall.was \in {"won", "lost"}
    /\ Len(wordList) = 2
    /\ currentWord = wordList[2]

\* C24: in both rulesets, whenever a round is Won its message is the win
\* message and the score it embeds is the score of that state, on the
\* letter-completion path and on the word-guess path.
C24_WinMessageScore ==
    gameState = "won"
    => /\ message = WonMessage(currentWord, score)
       /\ message.score = score

\* C24 witness: 'FIG' won in Variant A by its letters alone, 20 + 10 + 20
\* and the bonus 300; the message carries 350.
C24_Witness ==
    /\ variant = "A"
    /\ currentWord = FIG
    /\ guessedLetters = {"F", "I", "G"}
    /\ lastCall.op = "letter"
    /\ gameState = "won"
    /\ score = 350
    /\ message.score = 350

\* C25: Variant A: wrongGuesses is the number of guessed letters that do
\* not occur in currentWord, and it is between 0 and 6: it never reaches 7.
C25_WrongGuessesCount ==
    variant = "A"
    => /\ wrongGuesses = Cardinality(guessedLetters \ Range(currentWord))
       /\ 0 <= wrongGuesses
       /\ wrongGuesses <= 6

\* C25 witness: six letters, none of them in the secret, and the loss
\* evaluation still to run.
C25_Witness ==
    /\ variant = "A"
    /\ gameState = "playing"
    /\ "win" \in effects
    /\ wrongGuesses = 6
    /\ Cardinality(guessedLetters) = 6
    /\ guessedLetters \cap Range(currentWord) = {}

\* A guess delivered while the round is playing that changes the round.
StateChangingGuess ==
    /\ GuessStep
    /\ gameState = "playing"
    /\ round' # round

\* The state-changing guesses made so far in a playing round of Variant B.
GuessesMade == Cardinality(guessedLetters) + Len(wrongWordGuesses)

\* C26 as claimed: in Variant B the measure score/5 + wordGuessesLeft
\* strictly decreases on each state-changing guess made while playing.
C26_Original ==
    [][ (variant = "B" /\ StateChangingGuess)
        => (score' \div 5) + wordGuessesLeft' < (score \div 5) + wordGuessesLeft ]_vars

\* C26 amended: in Variant B every accepted letter guess lowers score by at
\* least 5 and every wrong word guess lowers wordGuessesLeft, so the measure
\* score/5 + wordGuessesLeft (23 at the start) strictly decreases on each of
\* them; the one other state-changing guess, the correct word guess, leaves
\* the measure as it is and ends the round as Won. A playing round has
\* measure at least 2 and has spent at least one unit of it per guess, so it
\* has seen at most 21 guesses and the 22nd ends it.
C26_MeasureDecreases ==
    /\ []((variant = "B" /\ gameState = "playing")
          => /\ score % 5 = 0
             /\ (score \div 5) + wordGuessesLeft + GuessesMade <= 23
             /\ (score \div 5) + wordGuessesLeft >= 2
             /\ GuessesMade <= 21)
    /\ [][ variant = "B"
           => /\ LetterGuessStep => score' <= score - 5
              /\ WrongWordGuessStep => wordGuessesLeft' < wordGuessesLeft
              /\ StateChangingGuess
                 => \/ (score' \div 5) + wordGuessesLeft' < (score \div 5) + wordGuessesLeft
                    \/ /\ lastCall'.op = "word"
                       /\ gameState' = "won"
                       /\ score' = score
                       /\ wordGuessesLeft' = wordGuessesLeft ]_vars

\* C26 witness: six consonants and two wrong word guesses into a round that
\* is still playing: 8 guesses made, measure 70/5 + 1 = 15.
C26_Witness ==
    /\ variant = "B"
    /\ gameState = "playing"
    /\ Cardinality(guessedLetters) = 6
    /\ Len(wrongWordGuesses) = 2
    /\ wordGuessesLeft = 1
    /\ score = 70

\* C27: Variant B: wordGuessesLeft + length(wrongWordGuesses) = 3 and
\* 0 <= wordGuessesLeft <= 3 in every state; wordGuessesLeft > 0 while
\* playing; a round is Lost only with score = 0 or wordGuessesLeft = 0; a
\* wrong word guess that repeats a recorded one is charged and recorded again.
C27_WordGuessAccounting ==
    /\ [](variant = "B"
          => /\ wordGuessesLeft + Len(wrongWordGuesses) = 3
             /\ 0 <= wordGuessesLeft
             /\ wordGuessesLeft <= 3
             /\ gameState = "playing" => wordGuessesLeft > 0
             /\ gameState = "lost" => (score = 0 \/ wordGuessesLeft = 0))
    /\ [][ \A guess \in RawGuesses :
             (/\ variant = "B"
              /\ WordGuessStep(guess)
              /\ Typed(guess) # currentWord
              /\ Typed(guess) \in Range(wrongWordGuesses))
             => /\ wrongWordGuesses' = Append(wrongWordGuesses, Typed(guess))
                /\ wordGuessesLeft' = wordGuessesLeft - 1 ]_vars

\* C27 witness: the same wrong word was guessed twice and is recorded twice.
C27_Witness ==
    /\ variant = "B"
    /\ gameState = "playing"
    /\ Len(wrongWordGuesses) = 2
    /\ wrongWordGuesses[1] = wrongWordGuesses[2]
    /\ wordGuessesLeft = 1

====
